---- MODULE Spec2Model ----
\* Model of storages/backends/azure_storage.py: the AzureStorage adapter
\* (a Django Storage backend) in front of a remote blob service.
\*
\* Names and paths are sequences of one-character strings, contents are
\* sequences of bytes.  The remote blob service (BlobService) is the
\* environment: a flat map from blob name to stored bytes, which answers one
\* request at a time and raises AzureMissingResourceHttpError when the blob
\* addressed by get_blob, get_blob_properties or delete_blob is absent.
EXTENDS Integers, Sequences, FiniteSets, TLC

\* ---------------------------------------------------------------- bounds
MaxBlobs == 2      \* blobs the remote container holds at once
MaxLen == 2        \* longest content, in bytes
MaxChunk == 1      \* chunk sizes content.chunks() cuts at are 1..MaxChunk
MaxTime == 1       \* wall-clock readings are 0..MaxTime
NumCallers == 2    \* concurrent callers sharing one adapter instance

\* ---------------------------------------------------------------- values
\* Python's None is the empty tuple and a value that may be None is a tuple:
\* <<>> or <<v>>.  Handles, names, headers and results are tuples too.
None == <<>>
MissingError == "AzureMissingResourceHttpError"
RemoteError == "RemoteError"

Name_a_bs_b == <<"a", "\\", "b", ".", "t", "x", "t">>
Name_a_b == <<"a", "/", "b", ".", "t", "x", "t">>
Name_a_a_x == <<"a", "/", "a", "/", "x">>

Names == {Name_a_bs_b, Name_a_b, Name_a_a_x}

Paths == {<<>>, <<"a", "/">>}

\* one content per length, its bytes all different: <<>>, <<1>>, <<1, 2>>, ...
Contents == {[i \in 1..n |-> i] : n \in 0..MaxLen}

Times == 0..MaxTime

Faults == {"none", "other"}

\* the file object handed to _save: its bytes, whether it offers chunks()
\* (and the chunk size it cuts at), and the content_type of its .file if any
ContentObjects ==
    {[bytes |-> d, has_chunks |-> TRUE, chunk_size |-> n, content_type |-> ct] :
        d \in Contents, n \in 1..MaxChunk, ct \in {None, <<"image/png">>}}
    \cup
    {[bytes |-> d, has_chunks |-> FALSE, chunk_size |-> 1, content_type |-> ct] :
        d \in Contents, ct \in {None, <<"image/png">>}}

\* ---------------------------------------------------------------- strings
StartsWith(s, p) == Len(p) <= Len(s) /\ SubSeq(s, 1, Len(p)) = p

EndsWith(s, p) == Len(p) <= Len(s) /\ SubSeq(s, Len(s) - Len(p) + 1, Len(s)) = p

\* str.replace(old, new) for a non-empty old: non-overlapping occurrences,
\* left to right, all of them.
RECURSIVE StrReplace(_, _, _)
StrReplace(s, old, new) ==
    IF s = <<>> THEN <<>>
    ELSE IF StartsWith(s, old)
         THEN new \o StrReplace(SubSeq(s, Len(old) + 1, Len(s)), old, new)
         ELSE <<Head(s)>> \o StrReplace(Tail(s), old, new)

\* str.split(sep) for a one-character sep
RECURSIVE StrSplit(_, _)
StrSplit(s, sep) ==
    IF s = <<>> THEN << <<>> >>
    ELSE IF Head(s) = sep
         THEN << <<>> >> \o StrSplit(Tail(s), sep)
         ELSE LET rest == StrSplit(Tail(s), sep)
              IN  << <<Head(s)>> \o Head(rest) >> \o Tail(rest)

\* sep.join(comps)
RECURSIVE StrJoin(_, _)
StrJoin(comps, sep) ==
    IF comps = <<>> THEN <<>>
    ELSE IF Len(comps) = 1 THEN Head(comps)
         ELSE Head(comps) \o <<sep>> \o StrJoin(Tail(comps), sep)

\* the component loop of os.path.normpath (POSIX): drops "" and ".",
\* resolves ".." against the component before it
RECURSIVE NormComps(_, _, _)
NormComps(comps, acc, initial_slashes) ==
    IF comps = <<>> THEN acc
    ELSE LET comp == Head(comps)
             dotdot == <<".", ".">>
         IN  IF comp = <<>> \/ comp = <<".">>
             THEN NormComps(Tail(comps), acc, initial_slashes)
             ELSE IF \/ comp # dotdot
                     \/ (initial_slashes = 0 /\ acc = <<>>)
                     \/ (acc # <<>> /\ acc[Len(acc)] = dotdot)
                  THEN NormComps(Tail(comps), Append(acc, comp), initial_slashes)
                  ELSE IF acc # <<>>
                       THEN NormComps(Tail(comps), SubSeq(acc, 1, Len(acc) - 1), initial_slashes)
                       ELSE NormComps(Tail(comps), acc, initial_slashes)

normpath(path) ==
    IF path = <<>> THEN <<".">>
    ELSE LET initial_slashes ==
                 IF ~StartsWith(path, <<"/">>) THEN 0
                 ELSE IF StartsWith(path, <<"/", "/">>) /\ ~StartsWith(path, <<"/", "/", "/">>)
                      THEN 2 ELSE 1
             joined == StrJoin(NormComps(StrSplit(path, "/"), <<>>, initial_slashes), "/")
             full == [i \in 1..initial_slashes |-> "/"] \o joined
         IN  IF full = <<>> THEN <<".">> ELSE full

clean_name(name) == StrReplace(normpath(name), <<"\\">>, <<"/">>)

\* ---------------------------------------------------------------- state
VARIABLES
    url_expiry_secs,                 \* self.url_expiry_secs
    azure_ssl,                       \* setting AZURE_SSL
    azure_storage_endpoint_suffix,   \* setting AZURE_STORAGE_ENDPOINT
    _connection,                     \* self._connection
    constructed,                     \* BlobService objects constructed so far
    blobs,                           \* the remote container: name -> bytes
    written,                         \* history: what callers last stored per name
    last,                            \* the most recent operation and its result
    pc, req, tmp, held,              \* concurrent callers: position, request, locals
    lastWritten                      \* history: handle of the latest field store

config == <<url_expiry_secs, azure_ssl, azure_storage_endpoint_suffix>>
threads == <<pc, req, tmp, held, lastWritten>>
vars == <<url_expiry_secs, azure_ssl, azure_storage_endpoint_suffix, _connection,
          constructed, blobs, written, last, pc, req, tmp, held, lastWritten>>

azure_container == "container"

\* the constructor argument url_expiry_secs and the settings AZURE_SSL and
\* AZURE_STORAGE_ENDPOINT the instance is built under
Configs ==
    {<<None, None, None>>,
     <<<<0>>, <<FALSE>>, <<"core.example.net">> >>,
     <<<<2>>, <<TRUE>>, None>>}

Callers == 1..NumCallers

NoReply ==
    [op |-> "none", name |-> None, outcome |-> "none", value |-> None,
     error |-> "none", fault |-> "none", handle |-> None, present |-> "na",
     extra |-> None]

Reply(op, name, outcome, value, error, fault, handle, extra) ==
    [op |-> op, name |-> name, outcome |-> outcome, value |-> value,
     error |-> error, fault |-> fault, handle |-> handle,
     present |-> IF name \in DOMAIN blobs THEN "present" ELSE "absent",
     extra |-> extra]

Returns(op, name, value, fault, handle, extra) ==
    Reply(op, name, "ok", value, "none", fault, handle, extra)

Raises(op, name, error, fault, handle, extra) ==
    Reply(op, name, "raise", None, error, fault, handle, extra)

Init ==
    /\ \E c \in Configs :
          /\ url_expiry_secs = c[1]
          /\ azure_ssl = c[2]
          /\ azure_storage_endpoint_suffix = c[3]
    /\ _connection = None
    /\ constructed = 0
    /\ blobs = [n \in {} |-> <<>>]
    /\ written = [n \in {} |-> <<>>]
    /\ last = NoReply
    /\ pc = [c \in Callers |-> "idle"]
    /\ req = [c \in Callers |-> None]
    /\ tmp = [c \in Callers |-> None]
    /\ held = [c \in Callers |-> None]
    /\ lastWritten = None

\* ---------------------------------------------------------------- connection
\* BlobService(account_name, account_key[, host_base=...]): a fresh handle
BlobService ==
    <<constructed + 1,
      IF azure_storage_endpoint_suffix # None /\ azure_storage_endpoint_suffix[1] # ""
      THEN azure_storage_endpoint_suffix[1] ELSE "default">>

\* faulty variant: the property constructs a handle on every access
connectionUncached == BlobService

\* the connection property, run without interruption
connection == IF _connection = None THEN BlobService ELSE _connection

UseConnection ==
    /\ _connection' = connection
    /\ constructed' = IF connection # _connection THEN constructed + 1 ELSE constructed

azure_protocol ==
    IF azure_ssl = <<TRUE>> THEN <<"https">>
    ELSE IF azure_ssl # None THEN <<"http">> ELSE None

\* ---------------------------------------------------------------- remote service
\* what a request addressing blob `name` raises: an injected failure of the
\* service, or not-found when the blob is absent
RemoteRaises(name, fault) ==
    IF fault = "other" THEN RemoteError
    ELSE IF name \notin DOMAIN blobs THEN MissingError ELSE "none"

LastModifiedHeaders == {None, <<"malformed">>} \cup {<<"GMT", t>> : t \in Times}

\* the header dictionary get_blob_properties returns for an existing blob
BlobProperties(name, hdr) ==
    IF hdr = None
    THEN ("content-length" :> Len(blobs[name]))
    ELSE ("content-length" :> Len(blobs[name])) @@ ("last-modified" :> hdr)

Put(store, name, data) == (name :> data) @@ store

Remove(store, name) == [n \in DOMAIN store \ {name} |-> store[n]]

\* ---------------------------------------------------------------- operations
\* Each operation is split in two: the access to self.connection and the
\* request made on the handle h that access returned.

\* __get_blob_properties: None for a missing blob
get_blob_properties(name, hdr, fault) ==
    IF RemoteRaises(name, fault) = MissingError THEN None
    ELSE <<BlobProperties(name, hdr)>>

Do_open(name, fault, h) ==
    /\ last' = IF RemoteRaises(name, fault) # "none"
               THEN Raises("open", name, RemoteRaises(name, fault), fault, h, None)
               ELSE Returns("open", name, <<"file", blobs[name]>>, fault, h, None)
    /\ UNCHANGED <<blobs, written>>

_open(name, fault) ==
    /\ UseConnection
    /\ Do_open(name, fault, connection)
    /\ UNCHANGED <<config, threads>>

\* faulty variant: the result of the lookup is not compared with None
Do_existsAnyAnswer(name, fault, h) ==
    /\ last' = IF fault = "other"
               THEN Raises("exists", name, RemoteError, fault, h, None)
               ELSE Returns("exists", name, <<"bool", TRUE>>, fault, h, None)
    /\ UNCHANGED <<blobs, written>>

Do_exists(name, fault, h) ==
    /\ last' = IF fault = "other"
               THEN Raises("exists", name, RemoteError, fault, h, None)
               ELSE Returns("exists", name,
                            <<"bool", get_blob_properties(name, None, fault) # None>>,
                            fault, h, None)
    /\ UNCHANGED <<blobs, written>>

exists(name, fault) ==
    /\ UseConnection
    /\ Do_exists(name, fault, connection)
    /\ UNCHANGED <<config, threads>>

\* faulty variant: not-found is not caught
Do_deleteUncaught(name, fault, h) ==
    LET raised == RemoteRaises(name, fault)
    IN  /\ last' = IF raised = "none"
                   THEN Returns("delete", name, None, fault, h, None)
                   ELSE Raises("delete", name, raised, fault, h, None)
        /\ blobs' = IF raised = "none" THEN Remove(blobs, name) ELSE blobs
        /\ written' = IF raised = "none" THEN Remove(written, name) ELSE written

Do_delete(name, fault, h) ==
    LET raised == RemoteRaises(name, fault)
    IN  /\ last' = IF raised \in {"none", MissingError}
                   THEN Returns("delete", name, None, fault, h, None)
                   ELSE Raises("delete", name, raised, fault, h, None)
        /\ blobs' = IF raised = "none" THEN Remove(blobs, name) ELSE blobs
        /\ written' = IF raised \in {"none", MissingError}
                      THEN Remove(written, name) ELSE written

delete(name, fault) ==
    /\ UseConnection
    /\ Do_delete(name, fault, connection)
    /\ UNCHANGED <<config, threads>>

\* faulty variant: size goes through __get_blob_properties and reports 0 for None
sizeNotFoundAsZero(name, fault) ==
    /\ UseConnection
    /\ last' = IF fault = "other"
               THEN Raises("size", name, RemoteError, fault, connection, None)
               ELSE IF name \notin DOMAIN blobs
               THEN Returns("size", name, <<"int", 0>>, fault, connection, None)
               ELSE Returns("size", name,
                            <<"int", BlobProperties(name, None)["content-length"]>>,
                            fault, connection, None)
    /\ UNCHANGED <<blobs, written, config, threads>>

size(name, fault) ==
    /\ UseConnection
    /\ last' = IF RemoteRaises(name, fault) # "none"
               THEN Raises("size", name, RemoteRaises(name, fault), fault, connection, None)
               ELSE Returns("size", name,
                            <<"int", BlobProperties(name, None)["content-length"]>>,
                            fault, connection, None)
    /\ UNCHANGED <<blobs, written, config, threads>>

\* content.chunks(): the bytes cut into pieces of chunk_size
RECURSIVE chunks(_, _)
chunks(data, chunk_size) ==
    IF data = <<>> THEN <<>>
    ELSE IF Len(data) <= chunk_size THEN <<data>>
         ELSE <<SubSeq(data, 1, chunk_size)>>
              \o chunks(SubSeq(data, chunk_size + 1, Len(data)), chunk_size)

\* faulty variant: the pieces are joined last to first
RECURSIVE joinReversed(_)
joinReversed(pieces) ==
    IF pieces = <<>> THEN <<>> ELSE joinReversed(Tail(pieces)) \o Head(pieces)

\* b''.join(chunk for chunk in ...)
RECURSIVE join(_)
join(pieces) ==
    IF pieces = <<>> THEN <<>> ELSE Head(pieces) \o join(Tail(pieces))

\* mimetypes.guess_type(name)[0], by the name's extension
guess_type(name) ==
    IF EndsWith(name, <<".", "t", "x", "t">>) THEN <<"text/plain">> ELSE None

content_type(name, content) ==
    IF content.content_type # None THEN content.content_type ELSE guess_type(name)

\* faulty variant: only the first chunk is taken
content_dataFirstChunk(content) ==
    IF content.has_chunks
    THEN IF chunks(content.bytes, content.chunk_size) = <<>> THEN <<>>
         ELSE Head(chunks(content.bytes, content.chunk_size))
    ELSE content.bytes

content_data(content) ==
    IF content.has_chunks
    THEN join(chunks(content.bytes, content.chunk_size))
    ELSE content.bytes

Do_save(name, content, fault, h) ==
    LET sent == <<"put_blob", azure_container, "BlockBlob", content_type(name, content)>>
    IN  /\ last' = IF fault = "other"
                   THEN Raises("save", name, RemoteError, fault, h, sent)
                   ELSE Returns("save", name, <<"name", name>>, fault, h, sent)
        /\ blobs' = IF fault = "other" THEN blobs
                    ELSE Put(blobs, name, content_data(content))
        /\ written' = IF fault = "other" THEN written
                      ELSE Put(written, name, content.bytes)

_save(name, content, fault) ==
    /\ name \in DOMAIN blobs \/ Cardinality(DOMAIN blobs) < MaxBlobs
    /\ UseConnection
    /\ Do_save(name, content, fault, connection)
    /\ UNCHANGED <<config, threads>>

\* url: with an expiry configured the body refers to pytz, timedelta,
\* AccessPolicy and SharedAccessPolicy, none of which the module imports or
\* defines; the first of them is reached at "pytz.utc", after utcnow() was
\* read and before self.connection is touched.
url(name, now) ==
    IF url_expiry_secs # None /\ url_expiry_secs[1] # 0
    THEN /\ last' = Raises("url", name, "NameError", "none", None, <<"issued", now>>)
         /\ UNCHANGED <<_connection, constructed, blobs, written, config, threads>>
    ELSE /\ UseConnection
         /\ last' = Returns("url", name,
                            <<"url", azure_container, name, azure_protocol, None>>,
                            "none", connection, None)
         /\ UNCHANGED <<blobs, written, config, threads>>

\* time.strptime / mktime / datetime.fromtimestamp: the header's reading,
\* taken as local wall-clock time
ParseModified(hdr) == <<"datetime", hdr[2]>>

modified_time(name, hdr, fault) ==
    /\ UseConnection
    /\ last' =
         IF fault = "other"
         THEN Raises("modified_time", name, RemoteError, fault, connection, None)
         ELSE LET properties == get_blob_properties(name, hdr, fault)
              IN  IF properties = None
                  THEN Reply("modified_time", name, "super", None, "TypeError",
                             fault, connection, None)
                  ELSE IF "last-modified" \notin DOMAIN properties[1]
                  THEN Reply("modified_time", name, "super", None, "KeyError",
                             fault, connection, None)
                  ELSE IF properties[1]["last-modified"][1] # "GMT"
                  THEN Raises("modified_time", name, "ValueError", fault, connection, None)
                  ELSE Returns("modified_time", name,
                               ParseModified(properties[1]["last-modified"]),
                               fault, connection, None)
    /\ UNCHANGED <<blobs, written, config, threads>>

\* list_blobs(container, prefix): the names under the prefix, in an order
\* the service chooses
Listings(prefix) ==
    LET under == {n \in DOMAIN blobs : prefix = None \/ StartsWith(n, prefix[1])}
    IN  {s \in [1..Cardinality(under) -> under] :
            \A i, j \in DOMAIN s : i # j => s[i] # s[j]}

listdir(path, fault) ==
    \E listing \in Listings(IF path = <<>> THEN None ELSE <<path>>) :
    LET results == [i \in DOMAIN listing |->
                       IF path # <<>> THEN StrReplace(listing[i], path, <<>>)
                       ELSE listing[i]]
    IN  /\ UseConnection
        /\ last' = IF fault = "other"
                   THEN Raises("listdir", path, RemoteError, fault, connection, None)
                   ELSE Returns("listdir", path, <<"pair", <<>>, results>>, fault,
                                connection, <<"blobs", listing>>)
        /\ UNCHANGED <<blobs, written, config, threads>>

\* ---------------------------------------------------------------- one caller
Next ==
    \/ \E name \in Names, fault \in Faults : _open(name, fault)
    \/ \E name \in Names, fault \in Faults : exists(name, fault)
    \/ \E name \in Names, fault \in Faults : delete(name, fault)
    \/ \E name \in Names, fault \in Faults : size(name, fault)
    \/ \E name \in Names, content \in ContentObjects, fault \in Faults :
          _save(name, content, fault)
    \/ \E name \in Names, now \in Times : url(name, now)
    \/ \E name \in Names, hdr \in LastModifiedHeaders, fault \in Faults :
          modified_time(name, hdr, fault)
    \/ \E path \in Paths, fault \in Faults : listdir(path, fault)

Spec == Init /\ [][Next]_vars

\* ---------------------------------------------------------------- several callers
\* Callers share one instance.  The connection property is not atomic: the
\* test of self._connection, the construction of the BlobService, the store
\* into the field and the load for "return self._connection" are separate
\* steps that other callers' steps may come between.
Requests ==
    {<<"exists", Name_a_b>>, <<"delete", Name_a_b>>,
     <<"save", Name_a_b,
       [bytes |-> <<1>>, has_chunks |-> FALSE, chunk_size |-> 1, content_type |-> None]>>}

Goto(c, label) == pc' = [pc EXCEPT ![c] = label]

\* a caller enters an operation, which starts by evaluating self.connection
Begin(c, r) ==
    /\ pc[c] = "idle"
    /\ req' = [req EXCEPT ![c] = r]
    /\ Goto(c, "check")
    /\ UNCHANGED <<config, _connection, constructed, blobs, written, last, tmp, held,
                   lastWritten>>

\* if self._connection is None
Check(c) ==
    /\ pc[c] = "check"
    /\ Goto(c, IF _connection = None THEN "construct" ELSE "load")
    /\ UNCHANGED <<config, _connection, constructed, blobs, written, last, req, tmp,
                   held, lastWritten>>

\* BlobService(...), the right-hand side of the assignment
Construct(c) ==
    /\ pc[c] = "construct"
    /\ tmp' = [tmp EXCEPT ![c] = BlobService]
    /\ constructed' = constructed + 1
    /\ Goto(c, "store")
    /\ UNCHANGED <<config, _connection, blobs, written, last, req, held, lastWritten>>

\* faulty variant: the store keeps a handle that is already there
StoredHandleIfUnset(c) == IF _connection = None THEN tmp[c] ELSE _connection

\* the value "self._connection = ..." stores
StoredHandle(c) == tmp[c]

Store(c) ==
    /\ pc[c] = "store"
    /\ _connection' = StoredHandle(c)
    /\ lastWritten' = tmp[c]
    /\ Goto(c, "load")
    /\ UNCHANGED <<config, constructed, blobs, written, last, req, tmp, held>>

\* return self._connection
Load(c) ==
    /\ pc[c] = "load"
    /\ held' = [held EXCEPT ![c] = _connection]
    /\ Goto(c, "call")
    /\ UNCHANGED <<config, _connection, constructed, blobs, written, last, req, tmp,
                   lastWritten>>

\* the request on the handle the property returned
Call(c) ==
    /\ pc[c] = "call"
    /\ CASE req[c][1] = "exists" -> Do_exists(req[c][2], "none", held[c])
         [] req[c][1] = "delete" -> Do_delete(req[c][2], "none", held[c])
         [] req[c][1] = "save" -> Do_save(req[c][2], req[c][3], "none", held[c])
    /\ Goto(c, "idle")
    /\ req' = [req EXCEPT ![c] = None]
    /\ tmp' = [tmp EXCEPT ![c] = None]
    /\ held' = [held EXCEPT ![c] = None]
    /\ UNCHANGED <<config, _connection, constructed, lastWritten>>

NextConcurrent ==
    \/ \E c \in Callers, r \in Requests : Begin(c, r)
    \/ \E c \in Callers : Check(c)
    \/ \E c \in Callers : Construct(c)
    \/ \E c \in Callers : Store(c)
    \/ \E c \in Callers : Load(c)
    \/ \E c \in Callers : Call(c)

\* a fresh instance built with the default settings
InitConcurrent ==
    /\ Init
    /\ config = <<None, None, None>>

SpecConcurrent == InitConcurrent /\ [][NextConcurrent]_vars

\* ---------------------------------------------------------------- properties

\* C1 (round trip): when open(k) is answered by the service and k was saved
\* with content c, with no later save or delete on k, open returns a file
\* whose bytes are exactly c.
RoundTrip ==
    (last.op = "open" /\ last.fault = "none" /\ last.name \in DOMAIN written)
        => (last.outcome = "ok" /\ last.value = <<"file", written[last.name]>>)

RoundTripWitness ==
    /\ last.op = "open"
    /\ last.outcome = "ok"
    /\ last.name \in DOMAIN written
    /\ Len(last.value[2]) >= 2

\* C2 as stated: not-found is turned into a result by exists (false) and
\* delete (silent) only; size, open and modified_time on a key with no blob
\* raise the service's not-found error; any other remote error propagates.
NotFoundTwoOperations ==
    /\ (last.present = "absent" /\ last.fault = "none") =>
          /\ last.op = "exists" => (last.outcome = "ok" /\ last.value = <<"bool", FALSE>>)
          /\ last.op = "delete" => last.outcome = "ok"
          /\ last.op \in {"size", "open", "modified_time"} =>
                (last.outcome = "raise" /\ last.error = MissingError)
    /\ last.fault = "other" => (last.outcome = "raise" /\ last.error = RemoteError)

\* C2 amended: not-found is turned into a result by three operations: exists
\* (false), delete (silent) and modified_time (which falls back to the
\* superclass's modified_time); size and open on a key with no blob raise the
\* service's not-found error; any other remote error propagates unchanged.
NotFoundThreeOperations ==
    /\ (last.present = "absent" /\ last.fault = "none") =>
          /\ last.op = "exists" => (last.outcome = "ok" /\ last.value = <<"bool", FALSE>>)
          /\ last.op = "delete" => last.outcome = "ok"
          /\ last.op = "modified_time" => last.outcome = "super"
          /\ last.op \in {"size", "open"} =>
                (last.outcome = "raise" /\ last.error = MissingError)
    /\ last.fault = "other" => (last.outcome = "raise" /\ last.error = RemoteError)

NotFoundWitness ==
    /\ last.op = "modified_time"
    /\ last.present = "absent"
    /\ last.fault = "none"
    /\ last.outcome = "super"

\* C3 as stated: names with the same normalized form address the same blob:
\* an open that directly follows a successful save under a name with the
\* same clean_name returns the saved content.
NormalizedNamesAddressSameBlob ==
    [][(/\ last.op = "save" /\ last.outcome = "ok"
        /\ last'.op = "open" /\ last'.fault = "none"
        /\ clean_name(last'.name) = clean_name(last.name))
          => (last'.outcome = "ok" /\ last'.value = <<"file", written[last.name]>>)]_vars

\* C4 as stated: with an expiry configured url(k) returns a URL carrying a
\* read-only token bound to (container, k) that expires at issue time plus
\* the configured seconds; with none configured it returns an unsigned URL.
UrlSignedWhenExpiryConfigured ==
    last.op = "url" =>
        IF url_expiry_secs # None /\ url_expiry_secs[1] # 0
        THEN /\ last.outcome = "ok"
             /\ last.extra # None
             /\ last.value = <<"url", azure_container, last.name, azure_protocol,
                               <<"r", azure_container, last.name,
                                 last.extra[2] + url_expiry_secs[1]>> >>
        ELSE /\ last.outcome = "ok"
             /\ last.value = <<"url", azure_container, last.name, azure_protocol, None>>

\* the name with its leading prefix cut off, the rest untouched
StripLeading(name, prefix) ==
    IF StartsWith(name, prefix) THEN SubSeq(name, Len(prefix) + 1, Len(name)) ELSE name

\* C5 as stated: listdir(prefix) returns an empty first element and, in the
\* listing's order, each listed name with only its leading prefix removed.
ListdirStripsLeadingPrefix ==
    (last.op = "listdir" /\ last.outcome = "ok") =>
        /\ last.value[2] = <<>>
        /\ last.value[3] = [i \in DOMAIN last.extra[2] |->
                               StripLeading(last.extra[2][i], last.name)]

\* C6 (delete is idempotent): unless the service fails otherwise, delete(k)
\* completes without error and leaves no blob at k; an exists(k) that follows
\* returns false; a second delete(k) completes and leaves the store unchanged.
DeleteIdempotent ==
    /\ []((last.op = "delete" /\ last.fault = "none") =>
             (last.outcome = "ok" /\ last.name \notin DOMAIN blobs))
    /\ [][/\ (/\ last.op = "delete" /\ last.outcome = "ok"
              /\ last'.op = "exists" /\ last'.name = last.name /\ last'.fault = "none")
                => last'.value = <<"bool", FALSE>>
          /\ (/\ last.op = "delete" /\ last.outcome = "ok"
              /\ last'.op = "delete" /\ last'.name = last.name /\ last'.fault = "none")
                => (last'.outcome = "ok" /\ blobs' = blobs)]_vars

DeleteIdempotentWitness ==
    /\ last.op = "delete"
    /\ last.outcome = "ok"
    /\ last.present = "present"
    /\ last.name \notin DOMAIN blobs

\* C7: whenever exists(k) returns, it returns true iff the container holds a
\* blob at k, which is iff k was saved and not deleted since; an exists step
\* changes no blob.
ExistsIffBlob ==
    /\ []((last.op = "exists" /\ last.outcome = "ok") =>
             /\ last.value = <<"bool", last.name \in DOMAIN blobs>>
             /\ last.value = <<"bool", last.name \in DOMAIN written>>)
    /\ [][last'.op = "exists" => blobs' = blobs]_vars

ExistsIffBlobWitness ==
    /\ last.op = "exists"
    /\ last.value = <<"bool", TRUE>>
    /\ last.name \in DOMAIN written

\* C8: size(k), when answered, returns the length of the content most
\* recently saved at k.
SizeIsSavedLength ==
    (last.op = "size" /\ last.fault = "none" /\ last.name \in DOMAIN written)
        => (last.outcome = "ok" /\ last.value = <<"int", Len(written[last.name])>>)

SizeIsSavedLengthWitness ==
    /\ last.op = "size"
    /\ last.outcome = "ok"
    /\ last.value = <<"int", 2>>

\* C9: with one caller the handle is None until an operation uses it, is
\* constructed at most once, and every operation that uses a handle uses the
\* cached one, which is never reset or replaced.
ConnectionLazyOnce ==
    /\ [](/\ constructed <= 1
          /\ (_connection = None) <=> (constructed = 0)
          /\ last.handle # None => last.handle = _connection)
    /\ [][/\ _connection # None => _connection' = _connection
          /\ (_connection = None /\ _connection' # None) => last'.handle = _connection']_vars

ConnectionLazyOnceWitness ==
    /\ constructed = 1
    /\ last.op = "size"
    /\ last.handle = _connection
    /\ DOMAIN blobs # {}

\* C10: concurrent first use is unguarded.  Every caller that found the
\* field unset constructs a handle of its own, so up to one handle per caller
\* is constructed; the field always holds the handle stored last; a request
\* is issued on a handle that was constructed, not necessarily the cached one.
\* The witness is the race itself: two handles constructed and the latest
\* request issued on a handle other than the one the field ends up with.
ConcurrentFirstUseUnguarded ==
    /\ _connection = lastWritten
    /\ constructed <= NumCallers
    /\ \A c \in Callers : pc[c] = "store" => (tmp[c] # None /\ tmp[c][1] <= constructed)
    /\ last.handle # None => last.handle[1] <= constructed

ConcurrentFirstUseWitness ==
    /\ constructed >= 2
    /\ \A c \in Callers : pc[c] = "idle"
    /\ last.handle # None
    /\ _connection # None
    /\ last.handle # _connection

====
